---- MODULE Spec2Model ----
(***************************************************************************)
(* Conway's Game of Life (bamboovir/conway-game-of-life).                  *)
(*                                                                         *)
(* State machine of GameOfLife (src/game_of_life.rs) over Matrix           *)
(* (src/matrix.rs): construction by from_args (random fill or a JSON       *)
(* nested list), then tick() under one of the three strategies.            *)
(* A Vec<u8> is a sequence; the flat index idx of the code (0-based) is    *)
(* position idx + 1 of the sequence.  A panic ends the process: it is      *)
(* recorded in `fault` and no action is enabled afterwards.                *)
(***************************************************************************)
EXTENDS Integers, Sequences, FiniteSets, TLC

\* ------------------------------------------------------------------ bounds
MaxDim == 3          \* --rows, --cols range over 0..MaxDim
MaxCells == 9        \* and rows * cols <= MaxCells
MaxFileRows == 2     \* rows of the JSON nested list
MaxFileCells == 3    \* numbers in the JSON nested list
MaxWorkers == 3      \* --workers ranges over 0..MaxWorkers
MaxTicks == 2        \* tick() calls per run
MaxBlinkerDim == 5   \* rows, cols of a blinker file range over 1..MaxBlinkerDim
MaxBlinkerTicks == 4 \* tick() calls per run from a blinker file
MaxStepDim == 2      \* rows, cols of the runs followed statement by statement
MaxStepCells == 4    \* and rows * cols <= MaxStepCells
MaxStepFileCells == 3 \* numbers in the nested list of such a run
MaxStepTicks == 2    \* tick() calls of such a run
MaxFairCells == 2    \* rows * cols of the runs checked under fair scheduling
MaxFairWorkers == 2  \* --workers of those runs ranges over 0..MaxFairWorkers
MaxFairTicks == 1    \* tick() calls of those runs

\* Bytes a file may hold: 0 and 1 are cells, 2 is a u8 that is not a cell.
FileVals == {0, 1, 2}
\* A file holding a number that does not fit a u8 (serde rejects it).
Undecodable == << <<256>> >>
U8Max == 255

VARIABLES
    rows,            \* GameOfLife.rows
    cols,            \* GameOfLife.cols
    matrix,          \* GameOfLife.matrix        (the current grid)
    backup_matrix,   \* GameOfLife.backup_matrix (the scratch grid)
    ticks,           \* GameOfLife.ticks
    parallel,        \* GameOfLife.parallel
    parallel_naive,  \* GameOfLife.parallel_naive
    workers,         \* GameOfLife.workers
    loopback,        \* GameOfLife.loopback
    fault,           \* "none", or the panic that ended the process
    initial_file,    \* GameOfLifeArgs.initial_file: <<"None">> or <<"Some", nested rows>>
    got,             \* last Matrix::get call and its result (SpecGet)
    pc,              \* where the thread that called tick() stands (SpecSteps)
    cursor,          \* its loop variable: idx (line 104), i (line 138), or the
                     \* position in `workers` of the join loop (line 166)
    threads,         \* the Vec `workers` of scoped threads (line 134)
    pending,         \* the items par_iter_mut has not yet handed to the closure
    payload,         \* the panic being propagated through the scope or the pool
    log              \* the writes of the tick under way: pairs <<writer, index written>>

vars == <<rows, cols, matrix, backup_matrix, ticks, parallel, parallel_naive,
          workers, loopback, fault, initial_file, got,
          pc, cursor, threads, pending, payload, log>>

\* No tick is running: the caller is in the loop of main, outside tick().
AtRest ==
    /\ pc = "main"
    /\ cursor = 0
    /\ threads = <<>>
    /\ pending = {}
    /\ payload = "none"
    /\ log = {}

\* ------------------------------------------------------------ src/matrix.rs
RECURSIVE Flatten(_)
Flatten(nested) ==
    IF nested = <<>> THEN <<>> ELSE Head(nested) \o Flatten(Tail(nested))

Zeros(n) == [i \in 1..n |-> 0]

\* Matrix::new
MatrixNew(r, c) == [rows |-> r, cols |-> c, matrix |-> Zeros(r * c)]

\* Matrix::size
Size(m) == m.rows * m.cols

\* Matrix::idx
Idx(m, row, col) == row * m.cols + col

\* Matrix::inverse_idx (the caller guarantees m.cols > 0, else it panics)
InverseIdx(m, idx) == <<idx \div m.cols, idx % m.cols>>

\* Vec indexing self.matrix[idx]: inside the storage or a panic
InStorage(m, idx) == idx >= 0 /\ idx < Len(m.matrix)

\* Matrix::get panics (index out of bounds) iff idx(row, col) is outside the
\* storage; otherwise it returns the stored byte.
GetPanics(m, row, col) == ~InStorage(m, Idx(m, row, col))
Get(m, row, col) == m.matrix[Idx(m, row, col) + 1]

\* MatrixVisitor::visit_seq on rows that serde decoded as Vec<Vec<u8>>
VisitSeq(nested) ==
    [rows   |-> Len(nested),
     cols   |-> IF nested = <<>> THEN 0 ELSE Len(Head(nested)),
     matrix |-> Flatten(nested)]

\* seq.next_element::<Vec<u8>>() succeeds iff every number fits a u8
Decodes(nested) ==
    \A i \in 1..Len(nested) : \A j \in 1..Len(nested[i]) :
        nested[i][j] >= 0 /\ nested[i][j] <= U8Max

\* ------------------------------------------------------ src/game_of_life.rs
\* TerminateProbes with the `col > 0` guard of line 209 left out.
TerminateProbesUnguardedLeft(m, row, col) ==
    << [ok |-> row < m.rows - 1 /\ col < m.cols - 1, r |-> row + 1, c |-> col + 1],
       [ok |-> row > 0 /\ col > 0,                   r |-> row - 1, c |-> col - 1],
       [ok |-> row < m.rows - 1 /\ col > 0,          r |-> row + 1, c |-> col - 1],
       [ok |-> row > 0 /\ col < m.cols - 1,          r |-> row - 1, c |-> col + 1],
       [ok |-> col < m.cols - 1,                     r |-> row,     c |-> col + 1],
       [ok |-> TRUE,                                 r |-> row,     c |-> col - 1],
       [ok |-> row < m.rows - 1,                     r |-> row + 1, c |-> col],
       [ok |-> row > 0,                              r |-> row - 1, c |-> col] >>

\* The eight guarded probes of write_terminate_next_tick_state, in source
\* order.  `ok` is the guard left of the && that precedes matrix.get(r, c):
\* the get is evaluated iff the guard holds.
TerminateProbes(m, row, col) ==
    << [ok |-> row < m.rows - 1 /\ col < m.cols - 1, r |-> row + 1, c |-> col + 1],
       [ok |-> row > 0 /\ col > 0,                   r |-> row - 1, c |-> col - 1],
       [ok |-> row < m.rows - 1 /\ col > 0,          r |-> row + 1, c |-> col - 1],
       [ok |-> row > 0 /\ col < m.cols - 1,          r |-> row - 1, c |-> col + 1],
       [ok |-> col < m.cols - 1,                     r |-> row,     c |-> col + 1],
       [ok |-> col > 0,                              r |-> row,     c |-> col - 1],
       [ok |-> row < m.rows - 1,                     r |-> row + 1, c |-> col],
       [ok |-> row > 0,                              r |-> row - 1, c |-> col] >>

\* LoopbackProbes with row_inc clamped at the last row instead of wrapped.
LoopbackProbesClamped(m, row, col) ==
    LET row_inc == IF row = m.rows - 1 THEN row ELSE row + 1
        row_dec == IF row = 0 THEN m.rows - 1 ELSE row - 1
        col_inc == IF col = m.cols - 1 THEN 0 ELSE col + 1
        col_dec == IF col = 0 THEN m.cols - 1 ELSE col - 1
    IN  << [ok |-> TRUE, r |-> row_inc, c |-> col_inc],
           [ok |-> TRUE, r |-> row_dec, c |-> col_dec],
           [ok |-> TRUE, r |-> row_inc, c |-> col_dec],
           [ok |-> TRUE, r |-> row_dec, c |-> col_inc],
           [ok |-> TRUE, r |-> row,     c |-> col_inc],
           [ok |-> TRUE, r |-> row,     c |-> col_dec],
           [ok |-> TRUE, r |-> row_inc, c |-> col],
           [ok |-> TRUE, r |-> row_dec, c |-> col] >>

\* The eight unguarded probes of write_loopback_next_tick_state.
LoopbackProbes(m, row, col) ==
    LET row_inc == IF row = m.rows - 1 THEN 0 ELSE row + 1
        row_dec == IF row = 0 THEN m.rows - 1 ELSE row - 1
        col_inc == IF col = m.cols - 1 THEN 0 ELSE col + 1
        col_dec == IF col = 0 THEN m.cols - 1 ELSE col - 1
    IN  << [ok |-> TRUE, r |-> row_inc, c |-> col_inc],
           [ok |-> TRUE, r |-> row_dec, c |-> col_dec],
           [ok |-> TRUE, r |-> row_inc, c |-> col_dec],
           [ok |-> TRUE, r |-> row_dec, c |-> col_inc],
           [ok |-> TRUE, r |-> row,     c |-> col_inc],
           [ok |-> TRUE, r |-> row,     c |-> col_dec],
           [ok |-> TRUE, r |-> row_inc, c |-> col],
           [ok |-> TRUE, r |-> row_dec, c |-> col] >>

\* The probes whose matrix.get is evaluated.
Evaluated(probes) == {i \in 1..Len(probes) : probes[i].ok}

\* live_count after the eight `if ... == 1 { live_count += 1 }` statements.
LiveCount(m, probes) ==
    Cardinality({i \in Evaluated(probes) :
                    /\ ~GetPanics(m, probes[i].r, probes[i].c)
                    /\ Get(m, probes[i].r, probes[i].c) = 1})

\* Some evaluated matrix.get, or the final matrix.get(row, col), panics.
ProbePanics(m, probes, row, col) ==
    \/ \E i \in Evaluated(probes) : GetPanics(m, probes[i].r, probes[i].c)
    \/ GetPanics(m, row, col)

\* TerminateValue with the overpopulation test off by one (> 4 for > 3).
TerminateValueLateDeath(cell, live_count) ==
    IF cell = 1
    THEN IF live_count < 2 \/ live_count > 4 THEN 0 ELSE 1
    ELSE IF live_count = 3 THEN 1 ELSE 0

\* TerminateValue without the birth of line 229: a dead cell stays dead.
TerminateValueNoBirth(cell, live_count) ==
    IF cell = 1
    THEN IF live_count < 2 \/ live_count > 3 THEN 0 ELSE 1
    ELSE 0

\* Lines 221-233: the value stored through `value`.
TerminateValue(cell, live_count) ==
    IF cell = 1
    THEN IF live_count < 2 \/ live_count > 3 THEN 0 ELSE 1
    ELSE IF live_count = 3 THEN 1 ELSE 0

\* LoopbackValue with a birth where no neighbour lives (= 0 for = 3).
LoopbackValueBirthAlone(cell, live_count) ==
    IF cell = 1
    THEN IF live_count < 2 \/ live_count > 3 THEN 0 ELSE 1
    ELSE IF live_count = 0 THEN 1 ELSE 0

\* Lines 281-293: the value stored through `value`.
LoopbackValue(cell, live_count) ==
    IF cell = 1
    THEN IF live_count < 2 \/ live_count > 3 THEN 0 ELSE 1
    ELSE IF live_count = 3 THEN 1 ELSE 0

Written(v) == [panic |-> "none", value |-> v]
Panicked(kind) == [panic |-> kind, value |-> 0]

\* write_terminate_next_tick_state: the value written, or the panic
\* (inverse_idx divides by cols; a get may be out of bounds).
WriteTerminate(m, idx) ==
    IF m.cols = 0 THEN Panicked("attempt to divide by zero")
    ELSE LET rc     == InverseIdx(m, idx)
             probes == TerminateProbes(m, rc[1], rc[2])
         IN  IF ProbePanics(m, probes, rc[1], rc[2])
             THEN Panicked("index out of bounds")
             ELSE Written(TerminateValue(Get(m, rc[1], rc[2]), LiveCount(m, probes)))

\* write_loopback_next_tick_state: the value written, or the panic.
WriteLoopback(m, idx) ==
    IF m.cols = 0 THEN Panicked("attempt to divide by zero")
    ELSE LET rc     == InverseIdx(m, idx)
             probes == LoopbackProbes(m, rc[1], rc[2])
         IN  IF ProbePanics(m, probes, rc[1], rc[2])
             THEN Panicked("index out of bounds")
             ELSE Written(LoopbackValue(Get(m, rc[1], rc[2]), LiveCount(m, probes)))

\* write_next_tick_state
WriteNextTickState(lb, m, idx) ==
    IF lb THEN WriteLoopback(m, idx) ELSE WriteTerminate(m, idx)

\* What one *_tick leaves in the scratch storage, or the panic that ends it.
Done(b) == [panic |-> "none", matrix |-> b]
Died(kind, b) == [panic |-> kind, matrix |-> b]

\* serial_tick, lines 104-107: `for idx in 0..self.matrix.size()`, from idx on.
\* get_mut(idx).unwrap() panics past the end of the scratch storage.
RECURSIVE SerialLoop(_, _, _, _)
SerialLoop(lb, m, b, idx) ==
    IF idx >= Size(m) THEN Done(b)
    ELSE IF idx >= Len(b) THEN Died("unwrap on None", b)
    ELSE LET w == WriteNextTickState(lb, m, idx)
         IN  IF w.panic # "none" THEN Died(w.panic, b)
             ELSE SerialLoop(lb, m, [b EXCEPT ![idx + 1] = w.value], idx + 1)

SerialOutcome(lb, m, b) == SerialLoop(lb, m, b, 0)

\* parallel_tick, lines 118-124: par_iter_mut().enumerate() visits every
\* element of the scratch storage (its length, not matrix.size()); a panic in
\* any closure call is propagated by rayon.  All panicking calls of one tick
\* panic alike (divide by zero iff cols = 0, else index out of bounds).
ParallelOutcome(lb, m, b) ==
    LET w      == [i \in 1..Len(b) |-> WriteNextTickState(lb, m, i - 1)]
        failed == {i \in 1..Len(b) : w[i].panic # "none"}
    IN  IF failed = {}
        THEN Done([i \in 1..Len(b) |-> w[i].value])
        ELSE Died(w[CHOOSE i \in failed : TRUE].panic, b)

\* ChunkSize rounded up instead of down.
ChunkSizeRoundedUp(size, nworkers) == (size + nworkers - 1) \div nworkers

\* parallel_naive_tick, line 135
ChunkSize(size, nworkers) == size \div nworkers

\* ChunkStart one index early: a worker starts on its predecessor's last index.
ChunkStartOverlaps(size, nworkers, i) ==
    IF i = 0 THEN 0 ELSE i * ChunkSize(size, nworkers) - 1

\* parallel_naive_tick, line 139
ChunkStart(size, nworkers, i) == i * ChunkSize(size, nworkers)

\* ChunkEnd without the last worker's special case: the remainder is dropped.
ChunkEndNoRemainder(size, nworkers, i) ==
    ChunkStart(size, nworkers, i) + ChunkSize(size, nworkers)

\* parallel_naive_tick, lines 140-144
ChunkEnd(size, nworkers, i) ==
    IF i = nworkers - 1 THEN size
    ELSE ChunkStart(size, nworkers, i) + ChunkSize(size, nworkers)

\* The closure of worker i, lines 157-160: `for idx in start..end`, from idx on.
RECURSIVE WorkerLoop(_, _, _, _, _)
WorkerLoop(lb, m, b, idx, end) ==
    IF idx >= end THEN Done(b)
    ELSE LET w == WriteNextTickState(lb, m, idx)
         IN  IF w.panic # "none" THEN Died(w.panic, b)
             ELSE WorkerLoop(lb, m, [b EXCEPT ![idx + 1] = w.value], idx + 1, end)

\* Workers i..nworkers-1, lines 138-168.  The workers write disjoint slices
\* and read only m, so their joint effect is that of running them one after
\* another; join().unwrap() panics if a worker panicked.
RECURSIVE RunWorkers(_, _, _, _, _)
RunWorkers(lb, m, b, nworkers, i) ==
    IF i >= nworkers THEN Done(b)
    ELSE LET o == WorkerLoop(lb, m, b, ChunkStart(Size(m), nworkers, i),
                             ChunkEnd(Size(m), nworkers, i))
             rest == RunWorkers(lb, m, o.matrix, nworkers, i + 1)
         IN  IF o.panic # "none" THEN Died(o.panic, rest.matrix) ELSE rest

\* parallel_naive_tick: the set of possible outcomes.  With nworkers = 0 line
\* 135 divides by zero.  slice::from_raw_parts_mut over a range that leaves
\* the scratch allocation (size > its length) is undefined behaviour: the
\* process may crash, or the in-allocation writes may land as intended.
NaiveOutcomes(lb, m, b, nworkers) ==
    IF nworkers = 0 THEN {Died("attempt to divide by zero", b)}
    ELSE IF Size(m) > Len(b)
    THEN {Died("segmentation fault", b),
          RunWorkers(lb, m, b, nworkers, 0)}
    ELSE {RunWorkers(lb, m, b, nworkers, 0)}

\* ---------------------------------------------------------------- inputs
\* What rng.gen_range(0..=1) can leave in a rows x cols matrix (lines 61-69).
RandomFills(r, c) == [1..(r * c) -> {0, 1}]

FileRows(maxlen) == UNION {[1..n -> FileVals] : n \in 0..maxlen}

\* The JSON nested lists of k rows holding at most `cells` numbers.
RECURSIVE NestedLists(_, _)
NestedLists(k, cells) ==
    IF k = 0 THEN {<<>>}
    ELSE UNION {{<<row>> \o rest : rest \in NestedLists(k - 1, cells - Len(row))} :
                   row \in FileRows(cells)}

FileInputs ==
    UNION {NestedLists(k, MaxFileCells) : k \in 0..MaxFileRows} \cup {Undecodable}

NoGet == [called |-> FALSE, row |-> 0, col |-> 0, panicked |-> FALSE, value |-> 0]

\* ------------------------------------------------------------- from_args
\* GameOfLife::from_args.  A nested list that serde cannot decode makes
\* expect("json decode exception") panic before any GameOfLife exists.
Init ==
    /\ parallel \in BOOLEAN
    /\ parallel_naive \in BOOLEAN
    /\ loopback \in BOOLEAN
    /\ workers \in 0..MaxWorkers
    /\ \/ /\ initial_file = <<"None">>
          /\ \E r \in 0..MaxDim, c \in 0..MaxDim :
                /\ r * c <= MaxCells
                /\ \E g \in RandomFills(r, c) :
                      matrix = [rows |-> r, cols |-> c, matrix |-> g]
          /\ fault = "none"
       \/ \E nested \in FileInputs :
            /\ initial_file = <<"Some", nested>>
            /\ IF Decodes(nested)
               THEN matrix = VisitSeq(nested) /\ fault = "none"
               ELSE matrix = MatrixNew(0, 0) /\ fault = "json decode exception"
    /\ rows = matrix.rows
    /\ cols = matrix.cols
    /\ backup_matrix = MatrixNew(rows, cols)
    /\ ticks = 0
    /\ got = NoGet
    /\ AtRest

\* ------------------------------------------------------------------ tick
\* The end of a *_tick: swap(&mut self.matrix, &mut self.backup_matrix) once
\* the scratch storage is written, or the panic.  A panic unwinds through
\* main: nothing of the process state is observed afterwards.
Commit(o) ==
    IF o.panic = "none"
    THEN /\ matrix' = [backup_matrix EXCEPT !.matrix = o.matrix]
         /\ backup_matrix' = matrix
         /\ fault' = fault
    ELSE /\ fault' = o.panic
         /\ UNCHANGED <<matrix, backup_matrix>>

Frame == UNCHANGED <<rows, cols, parallel, parallel_naive, workers, loopback,
                     initial_file, got, pc, cursor, threads, pending, payload, log>>

\* serial_tick without line 102.
serial_tick_uncounted ==
    /\ ticks' = ticks
    /\ Commit(SerialOutcome(loopback, matrix, backup_matrix.matrix))
    /\ Frame

serial_tick ==
    /\ ticks' = ticks + 1
    /\ Commit(SerialOutcome(loopback, matrix, backup_matrix.matrix))
    /\ Frame

parallel_tick ==
    /\ ticks' = ticks + 1
    /\ Commit(ParallelOutcome(loopback, matrix, backup_matrix.matrix))
    /\ Frame

parallel_naive_tick ==
    /\ ticks' = ticks + 1
    /\ \E o \in NaiveOutcomes(loopback, matrix, backup_matrix.matrix, workers) :
          Commit(o)
    /\ Frame

\* The loop of main calls tick() while the process lives.
Alive == fault = "none" /\ ticks < MaxTicks

\* GameOfLife::tick
tick ==
    \/ Alive /\ parallel_naive /\ parallel_naive_tick
    \/ Alive /\ ~parallel_naive /\ parallel /\ parallel_tick
    \/ Alive /\ ~parallel_naive /\ ~parallel /\ serial_tick

Next == tick

Spec == Init /\ [][Next]_vars

\* The runs with the command line's default strategy (--parallel and
\* --parallel-naive unset, --workers 2, lines 27-35): every grid and both
\* boundary policies, ticked by serial_tick.  The pure functions of a grid
\* (the two neighbour counts) are checked over these runs.
InitSerial ==
    /\ Init
    /\ ~parallel /\ ~parallel_naive
    /\ workers = 2

NextSerial == Alive /\ ~parallel_naive /\ ~parallel /\ serial_tick

SpecSerial == InitSerial /\ [][NextSerial]_vars

\* ------------------------------------------------------------ Matrix::get
\* A caller of the public Matrix::get on the current grid, with any
\* coordinates: the indexing of line 35 panics or yields the stored byte.
GetCall ==
    /\ fault = "none"
    /\ \E row \in 0..MaxDim, col \in 0..MaxDim :
          LET p == GetPanics(matrix, row, col)
          IN  /\ got' = [called |-> TRUE, row |-> row, col |-> col, panicked |-> p,
                         value |-> IF p THEN 0 ELSE Get(matrix, row, col)]
              /\ fault' = IF p THEN "index out of bounds" ELSE fault
    /\ UNCHANGED <<rows, cols, matrix, backup_matrix, ticks, parallel,
                   parallel_naive, workers, loopback, initial_file,
                   pc, cursor, threads, pending, payload, log>>

\* Matrices built by Matrix::new and Matrix::set (the random fill), with the
\* command line's defaults for the flags (lines 22-35).
InitGet ==
    /\ Init
    /\ initial_file = <<"None">>
    /\ ~parallel /\ ~parallel_naive /\ ~loopback
    /\ workers = 2

NextGet == GetCall

SpecGet == InitGet /\ [][NextGet]_vars

\* ---------------------------------------------------------- blinker files
\* The nested list of an r x c file whose only live cells are the three of a
\* blinker centred at (row, col) (0-based), lying in a row or in a column.
BlinkerRows(r, c, row, col, horizontal) ==
    [i \in 1..r |->
        [j \in 1..c |->
            IF horizontal
            THEN (IF i - 1 = row /\ j - 1 \in {col - 1, col, col + 1} THEN 1 ELSE 0)
            ELSE (IF j - 1 = col /\ i - 1 \in {row - 1, row, row + 1} THEN 1 ELSE 0)]]

\* Blinker files whose blinker, in both of its phases, touches no edge cell.
BlinkerFiles ==
    UNION {{BlinkerRows(r, c, row, col, h) :
               row \in 2..(r - 3), col \in 2..(c - 3), h \in BOOLEAN} :
           r \in 1..MaxBlinkerDim, c \in 1..MaxBlinkerDim}

\* from_args with --initial-file naming a blinker file and --loopback unset
\* (the Terminating policy), any strategy flags and worker count.
InitBlinker ==
    /\ parallel \in BOOLEAN
    /\ parallel_naive \in BOOLEAN
    /\ loopback = FALSE
    /\ workers \in 0..MaxWorkers
    /\ \E nested \in BlinkerFiles :
          /\ initial_file = <<"Some", nested>>
          /\ matrix = VisitSeq(nested)
    /\ fault = "none"
    /\ rows = matrix.rows
    /\ cols = matrix.cols
    /\ backup_matrix = MatrixNew(rows, cols)
    /\ ticks = 0
    /\ got = NoGet
    /\ AtRest

AliveBlinker == fault = "none" /\ ticks < MaxBlinkerTicks

\* GameOfLife::tick, called by the loop of main.
NextBlinker ==
    \/ AliveBlinker /\ parallel_naive /\ parallel_naive_tick
    \/ AliveBlinker /\ ~parallel_naive /\ parallel /\ parallel_tick
    \/ AliveBlinker /\ ~parallel_naive /\ ~parallel /\ serial_tick

SpecBlinker == InitBlinker /\ [][NextBlinker]_vars

\* ------------------------------------------------- tick, step by step
\* The same program with each tick followed statement by statement: the
\* caller's position is pc, the scoped threads and the pool's items advance
\* one cell at a time, in any interleaving.
\* The files of these runs have rows of any lengths, all dead or all alive:
\* it is the shape of the file that decides which accesses leave the storage.
StepFiles ==
    {nested \in UNION {NestedLists(k, MaxStepFileCells) : k \in 0..MaxFileRows} :
        \E v \in {0, 1} :
            \A i \in 1..Len(nested) : \A j \in 1..Len(nested[i]) : nested[i][j] = v}

\* --workers is read by parallel_naive_tick only (lines 135-140): the other
\* strategies are run with its default (line 34).
InitSteps ==
    /\ parallel \in BOOLEAN
    /\ parallel_naive \in BOOLEAN
    /\ loopback \in BOOLEAN
    /\ workers \in 0..MaxWorkers
    /\ ~parallel_naive => workers = 2
    /\ \/ /\ initial_file = <<"None">>
          /\ \E r \in 0..MaxStepDim, c \in 0..MaxStepDim :
                /\ r * c <= MaxStepCells
                /\ \E g \in RandomFills(r, c) :
                      matrix = [rows |-> r, cols |-> c, matrix |-> g]
          /\ fault = "none"
       \/ \E nested \in StepFiles :
            /\ initial_file = <<"Some", nested>>
            /\ matrix = VisitSeq(nested)
            /\ fault = "none"
    /\ rows = matrix.rows
    /\ cols = matrix.cols
    /\ backup_matrix = MatrixNew(rows, cols)
    /\ ticks = 0
    /\ got = NoGet
    /\ AtRest

AliveSteps == fault = "none" /\ ticks < MaxStepTicks

\* Strategy with the two tests in the other order: parallel wins.
StrategyParallelFirst(naive, par) ==
    IF par THEN "parallel" ELSE IF naive THEN "parallel_naive" ELSE "serial"

\* GameOfLife::tick, lines 92-98: the strategy the flags select.
Strategy(naive, par) ==
    IF naive THEN "parallel_naive" ELSE IF par THEN "parallel" ELSE "serial"

\* What no statement of a tick assigns.
Args == <<rows, cols, parallel, parallel_naive, workers, loopback, initial_file, got>>

\* The panic leaves tick() and main: the process is over.
Panic(kind) == fault' = kind /\ pc' = "dead"

\* `*value = ...` of write_next_tick_state on index idx of the scratch
\* storage, by `writer`.
Store(writer, idx, v) ==
    /\ backup_matrix' = [backup_matrix EXCEPT !.matrix[idx + 1] = v]
    /\ log' = log \cup {<<writer, idx>>}

\* tick() calls the strategy, whose first statement is `self.ticks += 1`
\* (lines 102, 113, 130).
Enter(strategy, at) ==
    /\ pc = "main" /\ AliveSteps
    /\ Strategy(parallel_naive, parallel) = strategy
    /\ ticks' = ticks + 1
    /\ pc' = at
    /\ cursor' = 0
    /\ threads' = <<>>
    /\ payload' = "none"
    /\ log' = {}

\* --- serial_tick
SerialEnter ==
    /\ Enter("serial", "serial")
    /\ pending' = {}
    /\ UNCHANGED <<matrix, backup_matrix, fault, Args>>

\* One iteration of the loop of lines 104-107.
SerialStep ==
    /\ pc = "serial" /\ cursor < Size(matrix)
    /\ IF cursor >= Len(backup_matrix.matrix)
       THEN Panic("unwrap on None") /\ UNCHANGED <<backup_matrix, cursor, log>>
       ELSE LET w == WriteNextTickState(loopback, matrix, cursor)
            IN  IF w.panic # "none"
                THEN Panic(w.panic) /\ UNCHANGED <<backup_matrix, cursor, log>>
                ELSE /\ Store(0, cursor, w.value)
                     /\ cursor' = cursor + 1
                     /\ UNCHANGED <<pc, fault>>
    /\ UNCHANGED <<matrix, ticks, threads, pending, payload, Args>>

\* The loop of line 104 ends.
SerialDone ==
    /\ pc = "serial" /\ cursor >= Size(matrix)
    /\ pc' = "swap"
    /\ UNCHANGED <<matrix, backup_matrix, ticks, fault, cursor, threads, pending,
                   payload, log, Args>>

\* --- parallel_tick
\* par_iter_mut().enumerate() yields every element of the scratch storage.
ParallelEnter ==
    /\ Enter("parallel", "for_each")
    /\ pending' = 0..(Len(backup_matrix.matrix) - 1)
    /\ UNCHANGED <<matrix, backup_matrix, fault, Args>>

\* A thread of the pool takes an item and runs the closure of lines 121-123
\* on it (the writer logged is the closure call, numbered by its item).  A
\* panic of the closure is kept for the caller; the items left may still be
\* run by the other threads.
ParallelStep ==
    /\ pc \in {"for_each", "for_each_unwind"}
    /\ \E idx \in pending :
          LET w == WriteNextTickState(loopback, matrix, idx)
          IN  /\ pending' = pending \ {idx}
              /\ IF w.panic # "none"
                 THEN /\ pc' = "for_each_unwind"
                      /\ payload' = IF payload = "none" THEN w.panic ELSE payload
                      /\ UNCHANGED <<backup_matrix, log>>
                 ELSE /\ Store(idx, idx, w.value)
                      /\ UNCHANGED <<pc, payload>>
    /\ UNCHANGED <<matrix, ticks, fault, cursor, threads, Args>>

\* for_each returns once every item has been run.
ParallelDone ==
    /\ pc = "for_each" /\ pending = {}
    /\ pc' = "swap"
    /\ UNCHANGED <<matrix, backup_matrix, ticks, fault, cursor, threads, pending,
                   payload, log, Args>>

\* for_each resumes the closure's panic in the caller.
ParallelUnwind ==
    /\ pc = "for_each_unwind"
    /\ Panic(payload)
    /\ UNCHANGED <<matrix, backup_matrix, ticks, cursor, threads, pending,
                   payload, log, Args>>

\* --- parallel_naive_tick
NaiveEnter ==
    /\ Enter("parallel_naive", "scope")
    /\ pending' = {}
    /\ UNCHANGED <<matrix, backup_matrix, fault, Args>>

\* Line 135: `self.matrix.size() / self.workers` panics when workers is 0;
\* no thread has been spawned yet, the scope has nothing to wait for.
NaiveChunk ==
    /\ pc = "scope"
    /\ IF workers = 0
       THEN Panic("attempt to divide by zero")
       ELSE pc' = "spawn" /\ UNCHANGED fault
    /\ UNCHANGED <<matrix, backup_matrix, ticks, cursor, threads, pending,
                   payload, log, Args>>

\* The scoped thread of worker i as scope.spawn starts it (lines 139-161).
Spawned(i) ==
    [start |-> ChunkStart(Size(matrix), workers, i),
     end   |-> ChunkEnd(Size(matrix), workers, i),
     idx   |-> ChunkStart(Size(matrix), workers, i),
     state |-> "running",
     panic |-> "none"]

\* One iteration of the loop of lines 138-164.
NaiveSpawn ==
    /\ pc = "spawn" /\ cursor < workers
    /\ threads' = Append(threads, Spawned(cursor))
    /\ cursor' = cursor + 1
    /\ UNCHANGED <<matrix, backup_matrix, ticks, fault, pc, pending, payload,
                   log, Args>>

\* The loop of line 138 ends; the loop of line 166 begins.
NaiveSpawned ==
    /\ pc = "spawn" /\ cursor >= workers
    /\ pc' = "join"
    /\ cursor' = 0
    /\ UNCHANGED <<matrix, backup_matrix, ticks, fault, threads, pending,
                   payload, log, Args>>

\* What a worker's access through slice::from_raw_parts_mut can do: its
\* range lies inside the scratch allocation, or the behaviour is undefined
\* (the process may crash, or go on).
SliceAccess(t) ==
    IF t.end > Len(backup_matrix.matrix) THEN {"in range", "crash"} ELSE {"in range"}

\* WorkerStep with a loop that does not advance: idx stays where it is.
WorkerStepNoAdvance(k) ==
    /\ k \in 1..Len(threads)
    /\ threads[k].state = "running" /\ threads[k].idx < threads[k].end
    /\ LET idx == threads[k].idx
           w   == WriteNextTickState(loopback, matrix, idx)
       IN  IF w.panic # "none"
           THEN /\ threads' = [threads EXCEPT ![k].state = "panicked",
                                              ![k].panic = w.panic]
                /\ UNCHANGED <<backup_matrix, log>>
           ELSE /\ Store(k - 1, idx, w.value)
                /\ UNCHANGED threads
    /\ UNCHANGED <<matrix, ticks, fault, pc, cursor, pending, payload, Args>>

\* One iteration of the loop of lines 157-160 in the thread at position k.
\* A panic ends the thread, not the process.
WorkerStep(k) ==
    /\ k \in 1..Len(threads)
    /\ threads[k].state = "running" /\ threads[k].idx < threads[k].end
    /\ \E access \in SliceAccess(threads[k]) :
          LET idx == threads[k].idx
              w   == WriteNextTickState(loopback, matrix, idx)
          IN  IF access = "crash"
              THEN Panic("segmentation fault") /\ UNCHANGED <<backup_matrix, threads, log>>
              ELSE IF w.panic # "none"
              THEN /\ threads' = [threads EXCEPT ![k].state = "panicked",
                                                 ![k].panic = w.panic]
                   /\ UNCHANGED <<backup_matrix, log, pc, fault>>
              ELSE /\ IF idx < Len(backup_matrix.matrix)
                      THEN Store(k - 1, idx, w.value)
                      ELSE UNCHANGED <<backup_matrix, log>>
                   /\ threads' = [threads EXCEPT ![k].idx = idx + 1]
                   /\ UNCHANGED <<pc, fault>>
    /\ UNCHANGED <<matrix, ticks, cursor, pending, payload, Args>>

\* The closure of the thread at position k returns (line 161).
WorkerExit(k) ==
    /\ k \in 1..Len(threads)
    /\ threads[k].state = "running" /\ threads[k].idx >= threads[k].end
    /\ threads' = [threads EXCEPT ![k].state = "finished"]
    /\ UNCHANGED <<matrix, backup_matrix, ticks, fault, pc, cursor, pending,
                   payload, log, Args>>

\* JoinReturns with a join that does not wait for the thread.
JoinReturnsAtOnce(t) == TRUE

\* worker.join() (line 167) returns once the thread has ended.
JoinReturns(t) == t.state # "running"

\* JoinIsErr with the Err of a panicked thread dropped (join().ok()).
JoinIsErrDropped(t) == FALSE

\* worker.join() is Err iff the thread panicked; unwrap() panics on Err.
JoinIsErr(t) == t.state = "panicked"

\* One iteration of the loop of lines 166-168.
NaiveJoin ==
    /\ pc = "join" /\ cursor < Len(threads)
    /\ JoinReturns(threads[cursor + 1])
    /\ IF JoinIsErr(threads[cursor + 1])
       THEN /\ pc' = "scope_unwind"
            /\ payload' = threads[cursor + 1].panic
            /\ UNCHANGED cursor
       ELSE /\ cursor' = cursor + 1
            /\ UNCHANGED <<pc, payload>>
    /\ UNCHANGED <<matrix, backup_matrix, ticks, fault, threads, pending, log, Args>>

\* The loop of line 166 ends and thread::scope returns (line 169).
NaiveJoined ==
    /\ pc = "join" /\ cursor >= Len(threads)
    /\ pc' = "swap"
    /\ UNCHANGED <<matrix, backup_matrix, ticks, fault, cursor, threads, pending,
                   payload, log, Args>>

\* thread::scope waits for every scoped thread, then resumes the panic of
\* its closure in the caller.
ScopeUnwind ==
    /\ pc = "scope_unwind"
    /\ \A k \in 1..Len(threads) : threads[k].state # "running"
    /\ Panic(payload)
    /\ UNCHANGED <<matrix, backup_matrix, ticks, cursor, threads, pending,
                   payload, log, Args>>

\* Swap with the scratch storage copied into the current grid, and the
\* scratch grid left as it is.
SwapCopiesOnly ==
    /\ pc = "swap"
    /\ matrix' = backup_matrix
    /\ backup_matrix' = backup_matrix
    /\ pc' = "main"
    /\ log' = {}
    /\ UNCHANGED <<ticks, fault, cursor, threads, pending, payload, Args>>

\* swap(&mut self.matrix, &mut self.backup_matrix) (lines 109, 126, 171);
\* the strategy and tick() return.
Swap ==
    /\ pc = "swap"
    /\ matrix' = backup_matrix
    /\ backup_matrix' = matrix
    /\ pc' = "main"
    /\ log' = {}
    /\ UNCHANGED <<ticks, fault, cursor, threads, pending, payload, Args>>

NextSteps ==
    \/ SerialEnter \/ SerialStep \/ SerialDone
    \/ ParallelEnter \/ ParallelStep \/ ParallelDone \/ ParallelUnwind
    \/ NaiveEnter \/ NaiveChunk \/ NaiveSpawn \/ NaiveSpawned
    \/ (\E k \in 1..MaxWorkers : WorkerStep(k))
    \/ (\E k \in 1..MaxWorkers : WorkerExit(k))
    \/ NaiveJoin \/ NaiveJoined \/ ScopeUnwind
    \/ Swap

SpecSteps == InitSteps /\ [][NextSteps]_vars

\* ------------------------------------------- tick, under fair scheduling
\* Runs on random grids (lines 60-72), followed statement by statement.
\* Of the fills the generator can produce these runs take the two uniform
\* ones: on a rows x cols storage the cells' values decide no branch of the
\* threads' control flow.
UniformFills(r, c) == {[i \in 1..(r * c) |-> v] : v \in {0, 1}}

InitFair ==
    /\ parallel \in BOOLEAN
    /\ parallel_naive \in BOOLEAN
    /\ loopback \in BOOLEAN
    /\ workers \in 0..MaxFairWorkers
    /\ ~parallel_naive => workers = 2
    /\ initial_file = <<"None">>
    /\ \E r \in 0..MaxFairCells, c \in 0..MaxFairCells :
          /\ r * c <= MaxFairCells
          /\ \E g \in UniformFills(r, c) :
                matrix = [rows |-> r, cols |-> c, matrix |-> g]
    /\ fault = "none"
    /\ rows = matrix.rows
    /\ cols = matrix.cols
    /\ backup_matrix = MatrixNew(rows, cols)
    /\ ticks = 0
    /\ got = NoGet
    /\ AtRest

\* The loop of main calls tick() MaxFairTicks times.
Called == ticks' <= MaxFairTicks

\* The statements of the thread that called tick().
CallerSteps ==
    \/ SerialEnter \/ SerialStep \/ SerialDone
    \/ ParallelEnter \/ ParallelDone \/ ParallelUnwind
    \/ NaiveEnter \/ NaiveChunk \/ NaiveSpawn \/ NaiveSpawned
    \/ NaiveJoin \/ NaiveJoined \/ ScopeUnwind
    \/ Swap

NextFair == NextSteps /\ Called

\* The operating system's scheduler lets every thread that can run take its
\* next step: the caller, each scoped thread, and the threads of the pool.
Scheduling ==
    /\ WF_vars(CallerSteps /\ Called)
    /\ \A k \in 1..MaxFairWorkers : WF_vars(WorkerStep(k) \/ WorkerExit(k))
    /\ WF_vars(ParallelStep)

FairSpecSteps == InitFair /\ [][NextFair]_vars /\ Scheduling

\* ================================================================ claims
RunsOn == fault = "none"
Cells(m) == 0..(Size(m) - 1)
Cell(m, idx) == m.matrix[idx + 1]
ExactStorage(m) == Len(m.matrix) = m.rows * m.cols
Binary(m) == \A i \in 1..Len(m.matrix) : m.matrix[i] \in {0, 1}

\* What a caller of tick() sees of an outcome: the panic, or the new grid.
Seen(o) == IF o.panic = "none" THEN <<"grid", o.matrix>> ELSE <<"panic">>

\* C1: from every reachable current grid, under the boundary policy and
\* the worker count (>= 1) of the run, serial_tick, parallel_tick and
\* parallel_naive_tick yield the identical next-generation grid; Init ranges
\* over both policies and all worker counts.
StrategiesAgree ==
    RunsOn =>
        LET s == Seen(SerialOutcome(loopback, matrix, backup_matrix.matrix))
        IN  /\ Seen(ParallelOutcome(loopback, matrix, backup_matrix.matrix)) = s
            /\ workers >= 1 =>
                  \A o \in NaiveOutcomes(loopback, matrix, backup_matrix.matrix, workers) :
                      Seen(o) = s

\* The three strategies do agree whenever the scratch storage has exactly
\* rows * cols bytes (not a claim: the part of C1 the code keeps).
StrategiesAgreeOnExactStorage ==
    (RunsOn /\ ExactStorage(backup_matrix)) => StrategiesAgree

\* The grid a completed tick read: after the swap it is the scratch grid.
Previous == backup_matrix
Ticked == RunsOn /\ ticks > 0

\* The probes the policy of the run makes for cell idx of m.
ProbesOf(m, idx) ==
    LET rc == InverseIdx(m, idx)
    IN  IF loopback THEN LoopbackProbes(m, rc[1], rc[2])
        ELSE TerminateProbes(m, rc[1], rc[2])

\* B3/S23: a live cell lives on iff n is 2 or 3, a dead cell is born iff n = 3.
B3S23(alive, n) == IF alive THEN (IF n \in {2, 3} THEN 1 ELSE 0)
                   ELSE (IF n = 3 THEN 1 ELSE 0)

\* C2: after every tick, under either policy, each cell of the new grid is
\* the B3/S23 decision on the previous grid's cell and its live-neighbour
\* count; so a cell with exactly 3 live neighbours is alive.
RuleIsB3S23 ==
    Ticked =>
        \A idx \in Cells(matrix) :
            LET n == LiveCount(Previous, ProbesOf(Previous, idx))
            IN  /\ Cell(matrix, idx) = B3S23(Cell(Previous, idx) = 1, n)
                /\ n = 3 => Cell(matrix, idx) = 1
                /\ (Cell(Previous, idx) = 1 /\ (n <= 1 \/ n >= 4)) => Cell(matrix, idx) = 0

\* C2 witness: a tick has killed a live cell with 4 or more live neighbours,
\* kept a live cell with 3, and given birth to a dead cell with 3.
RuleIsB3S23Witness ==
    /\ Ticked
    /\ \E idx \in Cells(matrix) :
          /\ Cell(Previous, idx) = 1
          /\ LiveCount(Previous, ProbesOf(Previous, idx)) >= 4
          /\ Cell(matrix, idx) = 0
    /\ \E idx \in Cells(matrix) :
          /\ Cell(Previous, idx) = 1
          /\ LiveCount(Previous, ProbesOf(Previous, idx)) = 3
          /\ Cell(matrix, idx) = 1
    /\ \E idx \in Cells(matrix) :
          /\ Cell(Previous, idx) = 0
          /\ LiveCount(Previous, ProbesOf(Previous, idx)) = 3
          /\ Cell(matrix, idx) = 1

\* The eight Moore offsets (+-1,+-1), (+-1,0), (0,+-1), as a set and in the
\* order in which the source probes them.
Moore == {d \in {-1, 0, 1} \X {-1, 0, 1} : d # <<0, 0>>}
MooreSeq == << <<1, 1>>, <<-1, -1>>, <<1, -1>>, <<-1, 1>>,
               <<0, 1>>, <<0, -1>>, <<1, 0>>, <<-1, 0>> >>
EachOffsetOnce ==
    Len(MooreSeq) = 8 /\ \A d \in Moore : Cardinality({i \in 1..8 : MooreSeq[i] = d}) = 1

InGrid(m, rc) == rc[1] >= 0 /\ rc[1] < m.rows /\ rc[2] >= 0 /\ rc[2] < m.cols
ProbeAt(probes, i) == <<probes[i].r, probes[i].c>>

\* C3: in every run under the Terminating policy, for every cell (r,c) of
\* every reachable grid, the probe of each Moore offset (dr,dc) is evaluated iff (r+dr, c+dc)
\* lies inside the grid, and then reads that coordinate: each in-grid
\* neighbour is read once and nothing outside is read.  The live count is
\* the number of offsets whose coordinate is inside and holds 1; a corner
\* cell has at most 3 candidates.
TerminateCountsInside ==
    (RunsOn /\ ~loopback) =>
        /\ EachOffsetOnce
        /\ \A idx \in Cells(matrix) :
            LET rc     == InverseIdx(matrix, idx)
                probes == TerminateProbes(matrix, rc[1], rc[2])
                at(i)  == <<rc[1] + MooreSeq[i][1], rc[2] + MooreSeq[i][2]>>
                corner == rc[1] \in {0, matrix.rows - 1} /\ rc[2] \in {0, matrix.cols - 1}
            IN  /\ Len(probes) = 8
                /\ \A i \in 1..8 :
                      /\ probes[i].ok <=> InGrid(matrix, at(i))
                      /\ probes[i].ok => ProbeAt(probes, i) = at(i)
                /\ corner => Cardinality(Evaluated(probes)) <= 3
                /\ ~ProbePanics(matrix, probes, rc[1], rc[2]) =>
                      LiveCount(matrix, probes)
                        = Cardinality({i \in 1..8 :
                              InGrid(matrix, at(i)) /\ Get(matrix, at(i)[1], at(i)[2]) = 1})

\* C3 witness: a Terminating tick ran on a grid whose corner cell (0,0) had
\* its 3 neighbours alive, and whose cell (1,1) had all 8 neighbours inside.
TerminateCountsInsideWitness ==
    /\ Ticked /\ ~loopback
    /\ Previous.rows = 3 /\ Previous.cols = 3
    /\ LiveCount(Previous, TerminateProbes(Previous, 0, 0)) = 3
    /\ Cardinality(Evaluated(TerminateProbes(Previous, 1, 1))) = 8
    /\ Cell(matrix, 0) = 1

\* The Toroidal neighbour of (row, col) at offset d.
Wrapped(m, row, col, d) ==
    <<(row + d[1] + m.rows) % m.rows, (col + d[2] + m.cols) % m.cols>>

\* The sum of the cells at the wrapped coordinates of offsets i..8.
RECURSIVE SumWrapped(_, _, _, _)
SumWrapped(m, row, col, i) ==
    IF i > Len(MooreSeq) THEN 0
    ELSE LET p == Wrapped(m, row, col, MooreSeq[i])
         IN  Get(m, p[1], p[2]) + SumWrapped(m, row, col, i + 1)

\* C4: in every run under the Toroidal policy, for every cell (r,c) of every
\* reachable grid (dimensions 1 and 2 included), all 8 probes are evaluated and the
\* probe of each Moore offset (dr,dc) reads ((r+dr+rows) % rows,
\* (c+dc+cols) % cols), once per offset even where those coincide.  The live
\* count is the number of offsets whose wrapped cell holds 1, which on a 0/1
\* grid is the sum of those 8 cells.
LoopbackCountsWrapped ==
    (RunsOn /\ loopback) =>
        /\ EachOffsetOnce
        /\ \A idx \in Cells(matrix) :
            LET rc     == InverseIdx(matrix, idx)
                probes == LoopbackProbes(matrix, rc[1], rc[2])
            IN  /\ Len(probes) = 8
                /\ \A i \in 1..8 :
                      /\ probes[i].ok
                      /\ ProbeAt(probes, i) = Wrapped(matrix, rc[1], rc[2], MooreSeq[i])
                      /\ InGrid(matrix, ProbeAt(probes, i))
                /\ ~ProbePanics(matrix, probes, rc[1], rc[2]) =>
                      LiveCount(matrix, probes)
                        = Cardinality({i \in 1..8 :
                              LET p == Wrapped(matrix, rc[1], rc[2], MooreSeq[i])
                              IN  Get(matrix, p[1], p[2]) = 1})
        /\ (ExactStorage(matrix) /\ Binary(matrix)) =>
              \A idx \in Cells(matrix) :
                  LET rc == InverseIdx(matrix, idx)
                  IN  LiveCount(matrix, LoopbackProbes(matrix, rc[1], rc[2]))
                        = SumWrapped(matrix, rc[1], rc[2], 1)

\* C4 witness: a Toroidal tick ran on a grid with a single row (every
\* vertical neighbour wraps onto the row itself) where a cell counted 8.
LoopbackCountsWrappedWitness ==
    /\ Ticked /\ loopback
    /\ Previous.rows = 1 /\ Previous.cols = 2
    /\ LiveCount(Previous, LoopbackProbes(Previous, 0, 0)) = 8
    /\ Cell(matrix, 0) = 0

\* C5: for every reachable grid size (0 included) and worker count >= 1, the
\* [start, end) ranges of parallel_naive_tick lie in [0, size) and every
\* flat index of [0, size) is in exactly one of them.
ChunksPartition ==
    workers >= 1 =>
        LET size == Size(matrix)
            owners(idx) == {i \in 0..(workers - 1) :
                               /\ ChunkStart(size, workers, i) <= idx
                               /\ idx < ChunkEnd(size, workers, i)}
        IN  /\ \A i \in 0..(workers - 1) :
                  /\ 0 <= ChunkStart(size, workers, i)
                  /\ ChunkStart(size, workers, i) <= ChunkEnd(size, workers, i)
                  /\ ChunkEnd(size, workers, i) <= size
            /\ \A idx \in 0..(size - 1) : Cardinality(owners(idx)) = 1

\* C5 witness: parallel_naive_tick has run with 3 workers on a size that 3
\* does not divide.
ChunksPartitionWitness ==
    /\ Ticked /\ parallel_naive
    /\ workers = 3
    /\ Size(matrix) > workers
    /\ Size(matrix) % workers # 0

\* C5, second case: more workers than cells (chunk size 0).
ChunksPartitionManyWorkers ==
    /\ Ticked /\ parallel_naive
    /\ workers > Size(matrix) /\ Size(matrix) > 0

\* C6: the tick counter is 0 at construction, and every tick() call, under
\* any strategy, increases it by exactly 1 (so it never decreases).
TicksCountCalls == ticks = 0 /\ [][ticks' = ticks + 1]_vars

\* C6 witness: two successive ticks have been counted.
TicksCountCallsWitness == RunsOn /\ ticks = 2

\* C7: in every state of a running simulation both grids store exactly
\* rows * cols bytes, each 0 or 1.
StorageIsRowsTimesCols ==
    RunsOn =>
        /\ Len(matrix.matrix) = rows * cols
        /\ Len(backup_matrix.matrix) = rows * cols
        /\ Binary(matrix)
        /\ Binary(backup_matrix)

\* C8: no simulation exists with the explicit-partitioned strategy and
\* worker count 0: from_args rejects it.
ZeroWorkersRejected == RunsOn => ~(parallel_naive /\ workers = 0)

\* Rows of differing lengths, or a number other than 0 and 1.
Malformed(nested) ==
    \/ \E i, j \in 1..Len(nested) : Len(nested[i]) # Len(nested[j])
    \/ \E i \in 1..Len(nested) : \E j \in 1..Len(nested[i]) : nested[i][j] \notin {0, 1}

\* C9: a nested list with rows of differing lengths or a value other than 0
\* and 1 makes the construction fail; no Matrix comes of it.
MalformedInputRejected ==
    (Len(initial_file) = 2 /\ Malformed(initial_file[2])) =>
        fault = "json decode exception"

\* C10: Matrix::get(row, col) with row >= rows or col >= cols ends in the
\* index-out-of-bounds panic, never in a value.
GetOutOfRangePanics ==
    (got.called /\ (got.row >= matrix.rows \/ got.col >= matrix.cols)) =>
        got.panicked

\* The rows * cols cells of a grid are all 0 (those its storage holds).
AllDead(m) == \A idx \in Cells(m) : InStorage(m, idx) => Cell(m, idx) = 0

\* C11: a tick that returns, under either boundary policy and any of the
\* three strategies, takes an all-dead current grid to an all-dead current
\* grid; so an all-dead grid stays all-dead after any number of ticks.
AllDeadStaysAllDead ==
    [][(RunsOn /\ AllDead(matrix) /\ fault' = "none") => AllDead(matrix')]_vars

\* C11 witness: two ticks in a row have returned an all-dead 3 x 3 grid (the
\* second of them ran on the all-dead grid the first one left).
AllDeadStaysAllDeadWitness ==
    /\ RunsOn /\ ticks = 2
    /\ Size(matrix) = 9 /\ ExactStorage(matrix)
    /\ AllDead(matrix) /\ AllDead(Previous)

\* The grid the file of the command line holds (generation 0).
LoadedGrid == VisitSeq(initial_file[2])

\* C12: from a blinker away from the edges, under the Terminating policy,
\* the current grid after every even number of ticks (2 included) equals the
\* initial grid, and after every odd number of ticks (1 included) differs
\* from it.
BlinkerPeriodTwo ==
    RunsOn =>
        /\ (ticks % 2 = 0) => matrix = LoadedGrid
        /\ (ticks % 2 = 1) => matrix # LoadedGrid

\* C12 witness: four ticks have run from a blinker lying in a row, and the
\* previous generation was the blinker standing in a column.
BlinkerPeriodTwoWitness ==
    /\ RunsOn /\ ticks = 4
    /\ \E row \in 2..(rows - 3), col \in 2..(cols - 3) :
          /\ initial_file[2] = BlinkerRows(rows, cols, row, col, TRUE)
          /\ matrix = VisitSeq(BlinkerRows(rows, cols, row, col, TRUE))
          /\ Previous = VisitSeq(BlinkerRows(rows, cols, row, col, FALSE))

\* The strategy of this run.
Runs(strategy) == Strategy(parallel_naive, parallel) = strategy

\* No index of the scratch storage has been written by two writers.
WritesApart == \A a \in log, b \in log : a[2] = b[2] => a[1] = b[1]

\* Every write of a scoped thread fell inside the range it was spawned with.
WritesInOwnRange ==
    Runs("parallel_naive") =>
        \A a \in log :
            /\ a[1] + 1 \in 1..Len(threads)
            /\ a[2] >= threads[a[1] + 1].start
            /\ a[2] < threads[a[1] + 1].end

\* C13: during a tick under the data-parallel and the explicit-partitioned
\* strategy no two workers write the same scratch index, every scoped thread
\* writes only inside its own range, and no step before the swap changes
\* the current grid.
WorkersWriteApart ==
    /\ []((Runs("parallel") \/ Runs("parallel_naive")) =>
             (WritesApart /\ WritesInOwnRange))
    /\ [][(~Runs("serial") /\ pc # "swap") => matrix' = matrix]_vars

\* C13 witness: three scoped threads have written the four cells of a grid
\* between them (each at least one) and the swap has not happened yet.
WorkersWriteApartWitness ==
    /\ Runs("parallel_naive") /\ workers = 3 /\ Size(matrix) = 4
    /\ pc = "join"
    /\ {a[2] : a \in log} = Cells(matrix)
    /\ {a[1] : a \in log} = {0, 1, 2}

\* Every scoped thread of this tick has returned from its closure, having
\* gone through its whole range.
AllFinished ==
    \A k \in 1..Len(threads) :
        threads[k].state = "finished" /\ threads[k].idx = threads[k].end

SomeRunning == \E k \in 1..Len(threads) : threads[k].state = "running"

\* C14: in parallel_naive_tick the caller stands at the swap, or has left
\* the tick (the new current grid is visible), only when every spawned
\* thread has finished its range; no step changes the current grid while a
\* thread is running.
SwapAfterAllWorkers ==
    /\ [](Runs("parallel_naive") =>
             /\ pc = "swap" => (Len(threads) = workers /\ AllFinished)
             /\ pc = "main" => ~SomeRunning)
    /\ [][(Runs("parallel_naive") /\ matrix' # matrix) =>
              (Len(threads) = workers /\ AllFinished)]_vars

\* C14 witness: the caller waits in the join loop for the first of three
\* threads, which still runs, while the other two have finished.
SwapAfterAllWorkersWitness ==
    /\ Runs("parallel_naive") /\ workers = 3 /\ Size(matrix) = 4
    /\ pc = "join" /\ cursor = 0
    /\ threads[1].state = "running"
    /\ threads[2].state = "finished" /\ threads[3].state = "finished"

\* The indices of the scratch storage written in the tick under way.
WrittenNow == {a[2] : a \in log}

\* C15: under each of the three strategies the tick counter changes only in
\* a step taken once every cell of the scratch grid has been written in
\* this tick and no worker is running, never before or during the cell
\* writes.
TicksCountedAfterWrites ==
    [][ticks' # ticks => (Cells(matrix) \subseteq WrittenNow /\ ~SomeRunning)]_vars

\* A worker has panicked in the tick under way.
WorkerFaulted ==
    \/ \E k \in 1..Len(threads) : threads[k].state = "panicked"
    \/ payload # "none"

\* C16: once a worker has panicked in a tick, the caller never reaches the
\* swap nor returns from tick(); while the panic has not reached the caller
\* the tick can still take a step (it is not swallowed: the tick ends, and
\* it cannot end but in the panic); and no step changes the current grid.
WorkerFaultFailsTick ==
    /\ [](WorkerFaulted => pc \notin {"swap", "main"})
    /\ []((WorkerFaulted /\ fault = "none") => ENABLED NextSteps)
    /\ []((WorkerFaulted /\ pc = "dead") => fault \notin {"none", "segmentation fault"})
    /\ [][WorkerFaulted' => matrix' = matrix]_vars

\* C16 witness: of three scoped threads two have finished and the third has
\* panicked; the caller of tick() got the panic, and the current grid is
\* still the loaded one.
WorkerFaultFailsTickWitness ==
    /\ Runs("parallel_naive") /\ Len(threads) = 3
    /\ threads[1].state = "finished" /\ threads[2].state = "finished"
    /\ threads[3].state = "panicked"
    /\ pc = "dead" /\ fault = "index out of bounds"
    /\ ticks = 1 /\ matrix = LoadedGrid

\* The value of cell idx in the generation after grid m, under policy lb.
NextCell(lb, m, idx) == WriteNextTickState(lb, m, idx).value

\* C17: when a tick reaches its swap, under any strategy and in whatever
\* order the cells were computed, every one of the rows * cols cells of the
\* scratch grid has been written in this tick and holds the value that the
\* current grid and the boundary policy alone determine; the swap then makes
\* the scratch grid the current one and the old current grid the scratch.
TickOverwritesScratch ==
    /\ [](pc = "swap" =>
             /\ Cells(matrix) \subseteq WrittenNow
             /\ \A idx \in Cells(matrix) :
                   Cell(backup_matrix, idx) = NextCell(loopback, matrix, idx))
    /\ [][pc = "swap" => (matrix' = backup_matrix /\ backup_matrix' = matrix)]_vars

\* C17 witness: the second tick of a run loaded from a file, split between
\* two scoped threads, stands at its swap: the scratch storage, which held
\* the loaded generation when the tick began, now holds another grid.
TickOverwritesScratchWitness ==
    /\ Runs("parallel_naive") /\ workers = 2 /\ Size(matrix) >= 2
    /\ pc = "swap" /\ ticks = 2
    /\ Len(initial_file) = 2
    /\ backup_matrix # LoadedGrid

\* floor(a / b) for b > 0, by its defining inequalities.
Floor(a, b) == CHOOSE q \in 0..a : q * b <= a /\ a < (q + 1) * b

\* C18: once parallel_naive_tick has spawned its threads there are exactly
\* `workers` of them; with chunk = floor(size / workers), thread i before
\* the last owns [i * chunk, (i + 1) * chunk), and the last owns
\* [(workers - 1) * chunk, size), which is chunk + size % workers indices.
ChunksAreFloorSized ==
    (Runs("parallel_naive") /\ pc \in {"join", "scope_unwind", "swap"}) =>
        LET size  == rows * cols
            chunk == Floor(size, workers)
        IN  /\ Len(threads) = workers
            /\ \A i \in 0..(workers - 2) :
                  /\ threads[i + 1].start = i * chunk
                  /\ threads[i + 1].end = (i + 1) * chunk
            /\ threads[workers].start = (workers - 1) * chunk
            /\ threads[workers].end = size
            /\ threads[workers].end - threads[workers].start
                  = chunk + (size % workers)

\* C18 witness: three threads have been spawned on a grid of four cells;
\* the last one owns two indices, the others one each.
ChunksAreFloorSizedWitness ==
    /\ Runs("parallel_naive") /\ pc = "join"
    /\ workers = 3 /\ rows * cols = 4
    /\ Len(threads) = 3
    /\ threads[3].end - threads[3].start = 2

\* The statements of each strategy, by the caller's position.
InSerial == pc = "serial"
InParallel == pc \in {"for_each", "for_each_unwind"}
InNaive == pc \in {"scope", "spawn", "join", "scope_unwind"}

\* C20: a tick runs the statements of one strategy only, the one the flags
\* select by precedence (parallel_naive first, even with parallel set; then
\* parallel; else serial), from its entry to its swap; and no step of a tick
\* changes the flags, the worker count, the boundary policy or the
\* dimensions (of the simulation and of its current grid).
OneStrategyFlagsKept ==
    /\ [](/\ InNaive => parallel_naive
          /\ InParallel => (~parallel_naive /\ parallel)
          /\ InSerial => (~parallel_naive /\ ~parallel))
    /\ [][/\ pc = "main" => \/ parallel_naive /\ pc' = "scope"
                            \/ ~parallel_naive /\ parallel /\ pc' = "for_each"
                            \/ ~parallel_naive /\ ~parallel /\ pc' = "serial"
          /\ (InNaive /\ pc' # "dead") => (pc' = "swap" \/ InNaive')
          /\ (InParallel /\ pc' # "dead") => (pc' = "swap" \/ InParallel')
          /\ (InSerial /\ pc' # "dead") => (pc' = "swap" \/ InSerial')
          /\ pc = "swap" => pc' = "main"
          /\ UNCHANGED <<parallel, parallel_naive, workers, loopback, rows, cols>>
          /\ matrix'.rows = matrix.rows /\ matrix'.cols = matrix.cols]_vars

\* C20 witness: with both flags set, the second tick has run through
\* parallel_naive_tick and returned.
OneStrategyFlagsKeptWitness ==
    /\ parallel /\ parallel_naive
    /\ pc = "main" /\ ticks = 2 /\ RunsOn
    /\ Len(threads) = workers /\ workers = 2
    /\ rows * cols = 4

\* The caller is inside tick().
InTick == pc \notin {"main", "dead"}

\* C19: under fair scheduling, every tick() call on a well-formed grid
\* (with workers >= 1 where parallel_naive_tick runs) eventually returns;
\* it returns with every cell of the generation written and swapped in, and
\* whenever the caller is outside tick() every scoped thread has ended.
TickReturns ==
    /\ (InTick /\ ExactStorage(matrix) /\ (parallel_naive => workers >= 1))
          ~> (pc = "main")
    /\ [](pc = "swap" => (Cells(matrix) \subseteq WrittenNow /\ AllFinished))
    /\ [](pc = "main" => (~SomeRunning /\ AllFinished))

\* C19 witness: a tick split between two scoped threads, one cell each, has
\* returned.
TickReturnsWitness ==
    /\ Runs("parallel_naive") /\ workers = 2 /\ Size(matrix) = 2
    /\ pc = "main" /\ ticks = 1 /\ RunsOn
    /\ Len(threads) = 2 /\ AllFinished

====
